---- MODULE Spec2Model ----
(***************************************************************************)
(* DumbDrop file routes (src/src/routes/files.js): the route handlers      *)
(* info / download / list / delete / rename over a filesystem, the unique  *)
(* path allocators getUniqueFilePath / getUniqueFolderPath, and the        *)
(* filename sanitizer sanitizeFilenameSafe.                                *)
(*                                                                         *)
(* Strings are sequences of characters; a character is a one-character     *)
(* string, except three non-ASCII code points written "<e9>" (U+00E9, e    *)
(* with acute), "<301>" (U+0301, combining acute) and "<4e2d>" (U+4E2D).   *)
(***************************************************************************)
EXTENDS Integers, Sequences, FiniteSets, TLC

(***************************************************************************)
(* Characters and JavaScript string primitives                             *)
(***************************************************************************)
LowerLetters == <<"a","b","c","d","e","f","g","h","i","j","k","l","m",
                  "n","o","p","q","r","s","t","u","v","w","x","y","z">>

UpperLetters == <<"A","B","C","D","E","F","G","H","I","J","K","L","M",
                  "N","O","P","Q","R","S","T","U","V","W","X","Y","Z">>

Digits == {"0","1","2","3","4","5","6","7","8","9"}

Range(s) == {s[i] : i \in 1..Len(s)}

Letters == Range(LowerLetters) \cup Range(UpperLetters)

\* \w of a JavaScript regular expression without the u flag
WordChars == Letters \cup Digits \cup {"_"}

\* \s of a JavaScript regular expression (the members the model uses)
Whitespace == {" ", "\t"}

\* code points above U+007F
NonAscii == {"<e9>", "<301>", "<4e2d>"}

\* U+0300..U+036F
CombiningMarks == {"<301>"}

IndexIn(seq, c) == CHOOSE i \in 1..Len(seq) : seq[i] = c

UpperChar(c) == IF c \in Range(LowerLetters) THEN UpperLetters[IndexIn(LowerLetters, c)] ELSE c

LowerChar(c) == IF c \in Range(UpperLetters) THEN LowerLetters[IndexIn(UpperLetters, c)] ELSE c

toUpperCase(s) == [i \in 1..Len(s) |-> UpperChar(s[i])]

toLowerCase(s) == [i \in 1..Len(s) |-> LowerChar(s[i])]

Max(S) == CHOOSE x \in S : \A y \in S : y <= x

Min(S) == CHOOSE x \in S : \A y \in S : x <= y

\* s.replace(/[set]/g, '')
RemoveChars(s, set) == SelectSeq(s, LAMBDA c : c \notin set)

\* s.replace(/[^set]/g, '')
KeepChars(s, set) == SelectSeq(s, LAMBDA c : c \in set)

\* s.replace(/[set]+/g, rep): every maximal run of members of set becomes rep
ReplaceRuns(s, set, rep) ==
  LET starts == SelectSeq([i \in 1..Len(s) |-> i],
                          LAMBDA i : s[i] \notin set \/ i = 1 \/ s[i-1] \notin set)
  IN  [k \in 1..Len(starts) |-> IF s[starts[k]] \in set THEN rep ELSE s[starts[k]]]

\* s.replace(/^[set]+/, '')
StripLeading(s, set) ==
  LET keep == {i \in 1..Len(s) : s[i] \notin set}
  IN  IF keep = {} THEN <<>> ELSE SubSeq(s, Min(keep), Len(s))

\* s.replace(/[set]+$/, '')
StripTrailing(s, set) ==
  LET keep == {i \in 1..Len(s) : s[i] \notin set}
  IN  IF keep = {} THEN <<>> ELSE SubSeq(s, 1, Max(keep))

\* s.trim()
trim(s) == StripTrailing(StripLeading(s, Whitespace), Whitespace)

\* s.startsWith(prefix)
startsWith(s, prefix) ==
  Len(prefix) <= Len(s) /\ SubSeq(s, 1, Len(prefix)) = prefix

\* s.endsWith(suffix)
endsWith(s, suffix) ==
  Len(suffix) <= Len(s) /\ SubSeq(s, Len(s) - Len(suffix) + 1, Len(s)) = suffix

\* s.normalize('NFD'): canonical decomposition, code point by code point
DecomposeChar(c) == IF c = "<e9>" THEN <<"e", "<301>">> ELSE <<c>>

RECURSIVE normalizeNFD(_)
normalizeNFD(s) ==
  IF s = <<>> THEN <<>>
  ELSE IF Len(s) = 1 THEN DecomposeChar(s[1])
  ELSE LET h == Len(s) \div 2
       IN  normalizeNFD(SubSeq(s, 1, h)) \o normalizeNFD(SubSeq(s, h + 1, Len(s)))

(***************************************************************************)
(* Node's path module (posix)                                              *)
(***************************************************************************)
\* index of the last character that is not a trailing slash; 0 if none
SegEnd(p) ==
  LET ns == {i \in 1..Len(p) : p[i] # "/"} IN IF ns = {} THEN 0 ELSE Max(ns)

\* index of the first character of the last segment
SegStart(p) ==
  LET sl == {i \in 1..SegEnd(p) : p[i] = "/"} IN IF sl = {} THEN 1 ELSE Max(sl) + 1

\* the last segment of p, trailing slashes ignored
LastSegment(p) == IF SegEnd(p) = 0 THEN <<>> ELSE SubSeq(p, SegStart(p), SegEnd(p))

\* path.extname(p)
extname(p) ==
  LET b    == LastSegment(p)
      dots == {i \in 1..Len(b) : b[i] = "."}
  IN  IF dots = {} \/ Max(dots) = 1 \/ b = <<".", ".">>
      THEN <<>>
      ELSE SubSeq(b, Max(dots), Len(b))

\* path.basename(p, ext)
basename(p, ext) ==
  LET b == LastSegment(p)
  IN  IF ext = <<>> \/ Len(ext) > Len(p) THEN b
      ELSE IF ext = p THEN <<>>
      ELSE IF endsWith(b, ext) /\ Len(b) > Len(ext)
           THEN SubSeq(b, 1, Len(b) - Len(ext))
           ELSE b

\* path.dirname(p)
dirname(p) ==
  IF p = <<>> THEN <<".">>
  ELSE IF SegEnd(p) = 0 THEN <<"/">>
  ELSE IF SegStart(p) = 1 THEN <<".">>
  ELSE LET d == SubSeq(p, 1, SegStart(p) - 1)
       IN  IF SegEnd(d) = 0 THEN <<"/">> ELSE SubSeq(d, 1, SegEnd(d))

\* p.split('/')
RECURSIVE split(_)
split(p) ==
  LET sl == {i \in 1..Len(p) : p[i] = "/"}
  IN  IF sl = {} THEN <<p>>
      ELSE <<SubSeq(p, 1, Min(sl) - 1)>> \o split(SubSeq(p, Min(sl) + 1, Len(p)))

\* segs.join('/')
RECURSIVE joinSegs(_)
joinSegs(segs) ==
  IF segs = <<>> THEN <<>>
  ELSE IF Len(segs) = 1 THEN segs[1]
  ELSE segs[1] \o <<"/">> \o joinSegs(Tail(segs))

\* normalizeString(p, allowAboveRoot): '.' and '' segments dropped, '..' pops
RECURSIVE normalizeSegs(_, _, _)
normalizeSegs(segs, acc, allowAboveRoot) ==
  IF segs = <<>> THEN acc
  ELSE LET s == Head(segs)
       IN  IF s = <<>> \/ s = <<".">>
           THEN normalizeSegs(Tail(segs), acc, allowAboveRoot)
           ELSE IF s = <<".", ".">>
           THEN IF acc # <<>> /\ acc[Len(acc)] # <<".", ".">>
                THEN normalizeSegs(Tail(segs), SubSeq(acc, 1, Len(acc) - 1), allowAboveRoot)
                ELSE IF allowAboveRoot
                THEN normalizeSegs(Tail(segs), Append(acc, s), allowAboveRoot)
                ELSE normalizeSegs(Tail(segs), acc, allowAboveRoot)
           ELSE normalizeSegs(Tail(segs), Append(acc, s), allowAboveRoot)

isAbsolute(p) == p # <<>> /\ p[1] = "/"

\* path.normalize(p)
normalize(p) ==
  IF p = <<>> THEN <<".">>
  ELSE LET body  == joinSegs(normalizeSegs(split(p), <<>>, ~isAbsolute(p)))
           body1 == IF body = <<>> /\ ~isAbsolute(p) THEN <<".">> ELSE body
           body2 == IF body # <<>> /\ p[Len(p)] = "/" THEN body1 \o <<"/">> ELSE body1
       IN  IF isAbsolute(p) THEN <<"/">> \o body2 ELSE body2

\* path.join(a, b)
join(a, b) ==
  IF a = <<>> /\ b = <<>> THEN <<".">>
  ELSE IF a = <<>> THEN normalize(b)
  ELSE IF b = <<>> THEN normalize(a)
  ELSE normalize(a \o <<"/">> \o b)

\* path.resolve(p) for an absolute p (every path the handlers resolve is
\* built on the absolute upload directory)
resolve(p) == <<"/">> \o joinSegs(normalizeSegs(split(p), <<>>, FALSE))

(***************************************************************************)
(* sanitizeFilenameSafe (fileUtils)                                        *)
(***************************************************************************)
UnnamedFile == <<"u","n","n","a","m","e","d","_","f","i","l","e">>

FileLit == <<"f","i","l","e">>

FileSuffix == <<"_","f","i","l","e">>

TxtExt == <<".","t","x","t">>

\* /[<>:"/\\|?*]/
FsReservedChars == {"<", ">", ":", "\"", "/", "\\", "|", "?", "*"}

\* /[`"'$|;&<>(){}[\]]/
ShellChars == {"`", "\"", "'", "$", "|", ";", "&", "<", ">", "(", ")", "{", "}", "[", "]"}

\* /[~#%&*{}\\:<>?\/+|"']/
ExtraChars == {"~", "#", "%", "&", "*", "{", "}", "\\", ":", "<", ">", "?", "/", "+", "|", "\"", "'"}

\* the complement of /[^\w\-_.]/
SafeChars == WordChars \cup {"-", "_", "."}

\* the complement of /[^a-zA-Z0-9.]/
ExtChars == Letters \cup Digits \cup {"."}

TrimChars == {".", "_", "-"}

reservedNames ==
  {<<"C","O","N">>, <<"P","R","N">>, <<"A","U","X">>, <<"N","U","L">>}
  \cup {<<"C","O","M",d>> : d \in Digits \ {"0"}}
  \cup {<<"L","P","T",d>> : d \in Digits \ {"0"}}

maxLength == 200

\* lines 696-702: the base name, or the default when none is left
RawBase(fileName) ==
  LET baseName == basename(fileName, extname(fileName))
  IN  IF baseName = <<>> \/ trim(baseName) = <<>> THEN UnnamedFile ELSE baseName

\* step 1: NFD, combining marks removed, non-ASCII removed
StepUnicode(baseName) ==
  RemoveChars(RemoveChars(normalizeNFD(baseName), CombiningMarks), NonAscii)

\* step 2: whitespace runs, then runs of + - and whitespace, become "_"
StepSeparators(baseName) ==
  ReplaceRuns(ReplaceRuns(baseName, Whitespace, "_"), {"+", "-"} \cup Whitespace, "_")

\* step 3: the seven replacements, in the order of the source
StepClean(baseName) ==
  LET a == RemoveChars(baseName, FsReservedChars)
      b == RemoveChars(a, ShellChars)
      c == RemoveChars(b, ExtraChars)
      d == KeepChars(c, SafeChars)
      e == ReplaceRuns(d, {"_"}, "_")
      f == StripLeading(e, TrimChars)
  IN  StripTrailing(f, TrimChars)

\* the base name as step 3 leaves it
StrippedBase(fileName) == StepClean(StepSeparators(StepUnicode(RawBase(fileName))))

\* step 4
StepDefault(baseName) == IF baseName = <<>> THEN FileLit ELSE baseName

\* step 5: reservedNames.includes(baseName.toUpperCase())
IsReservedName(baseName) == toUpperCase(baseName) \in reservedNames


\* the comparison without toUpperCase()
StepReservedCaseSensitive(baseName) ==
  IF baseName \in reservedNames THEN baseName \o FileSuffix ELSE baseName

StepReserved(baseName) ==
  IF IsReservedName(baseName) THEN baseName \o FileSuffix ELSE baseName

\* step 6
StepTruncate(baseName) ==
  IF Len(baseName) > maxLength THEN SubSeq(baseName, 1, maxLength) ELSE baseName


\* the extension lowercased but not filtered
CleanExtUnfiltered(ext) == toLowerCase(ext)

\* step 7
CleanExt(ext) ==
  IF ext = <<>> THEN ext
  ELSE LET c == toLowerCase(KeepChars(ext, ExtChars))
       IN  IF c # <<>> /\ c[1] # "." THEN <<".">> \o c ELSE c

sanitizeFilenameSafe(fileName) ==
  IF fileName = <<>> THEN UnnamedFile
  ELSE LET baseName  == StepTruncate(StepReserved(StepDefault(StrippedBase(fileName))))
           cleanExt  == CleanExt(extname(fileName))
           finalName == baseName \o cleanExt
       IN  IF finalName = <<>> \/ finalName = cleanExt
           THEN FileLit \o (IF cleanExt = <<>> THEN TxtExt ELSE cleanExt)
           ELSE finalName

\* .filter(part => part.length > 0 && part !== '.' && part !== '..')
KeptPart(part) == part # <<>> /\ part # <<".">> /\ part # <<".", ".">>

\* the parts re-joined as they came
sanitizePathJoinRaw(filePath) == joinSegs(split(filePath))

sanitizePathPreserveDirsSafe(filePath) ==
  IF filePath = <<>> THEN UnnamedFile \o TxtExt
  ELSE LET parts == SelectSeq(split(filePath), KeptPart)
       IN  joinSegs([i \in 1..Len(parts) |-> sanitizeFilenameSafe(parts[i])])

(***************************************************************************)
(* The filesystem and the requests                                         *)
(***************************************************************************)
\* at most this many requests are started in one behaviour
MaxReq == 2

\* request handlers that may be in flight together
Procs == {1, 2}

Path(segs) == <<"/">> \o joinSegs(segs)

NameD == <<"d">>

NameUp == <<"u","p">>

NameUp2 == <<"u","p","2">>

NameMeta == <<".","m","e","t","a","d","a","t","a">>

\* config.uploadDir
uploadDir == Path(<<NameD, NameUp>>)

\* METADATA_DIR = path.join(config.uploadDir, '.metadata')
METADATA_DIR == join(uploadDir, NameMeta)

Dir == [type |-> "directory", data |-> 0, owner |-> 0]

File(n) == [type |-> "file", data |-> n, owner |-> 0]

\* what is on disk in every initial state: the upload directory with a file
\* a, a directory s holding a file b and a hidden file .h, and the metadata
\* directory
BaseFs ==
  (<<"/">> :> Dir) @@ (Path(<<NameD>>) :> Dir) @@ (uploadDir :> Dir)
  @@ (METADATA_DIR :> Dir)
  @@ (join(METADATA_DIR, <<"m">>) :> File(7))
  @@ (join(uploadDir, <<"a">>) :> File(10))
  @@ (join(uploadDir, <<"s">>) :> Dir)
  @@ (join(uploadDir, <<"s","/","b">>) :> File(20))
  @@ (join(uploadDir, <<"s","/",".","h">>) :> File(40))

\* entries outside the upload directory that may or may not exist: a file
\* /d/x, and a sibling directory /d/up2 (its name has the upload directory's
\* as a string prefix) holding a file x
OutsideFile == (Path(<<NameD, <<"x">>>>) :> File(5))

SiblingDir == (Path(<<NameD, NameUp2>>) :> Dir) @@ (Path(<<NameD, NameUp2, <<"x">>>>) :> File(6))

EmptyFs == [q \in {} |-> Dir]

\* a file of the upload directory whose name ends in a double quote
NameQuoted == <<"q", "\"">>

QuotedFile == (join(uploadDir, NameQuoted) :> File(3))

InitialFilesystems ==
  {BaseFs @@ o @@ b : o \in {EmptyFs, OutsideFile}, b \in {EmptyFs, SiblingDir}}
  \cup {BaseFs @@ QuotedFile}

\* req.params[0]
Params ==
  { <<"a">>, <<"s">>, <<"s","/","b">>, <<>>, <<"n">>,
    <<".",".","/","x">>,
    <<".",".","/","u","p","2","/","x">>,
    NameMeta \o <<"/","m">>,
    NameQuoted }

\* req.body.newName (<<>> also stands for a missing or non-string value)
NewNames == { <<"a">>, <<"b">>, <<"?","?">>, <<" ">>, <<".",".","\\",".",".","/","x">> }

Ops == {"info", "download", "delete", "rename"}

NoReq == [op |-> "none", param |-> <<>>, newName |-> <<>>]

NoResp ==
  [status |-> 0, body |-> 0, kind |-> "", newPath |-> <<>>,
   items |-> <<>>, totalFiles |-> 0, totalSize |-> 0, disposition |-> <<>>]

VARIABLES
  fs,     \* the filesystem: absolute path -> [type, data, owner]
  pc,     \* pc[r]: where handler r is
  req,    \* req[r]: the request handler r serves
  resp,   \* resp[r]: the response sent so far
  sys,    \* sys[r]: the filesystem calls handler r has issued, in order
  chk,    \* chk[r]: the resolved paths that passed handler r's containment check
  nreq,   \* requests started so far
  walk,   \* walk[r]: the getDirectoryContents calls of handler r, innermost last
  alloc,  \* the allocator calls
  san     \* the sanitizer run

vars == <<fs, pc, req, resp, sys, chk, nreq, walk, alloc, san>>

hvars == <<fs, pc, req, resp, sys, chk, nreq, walk>>

\* path.join(config.uploadDir, req.params[0]), tabulated over the requests
joinedPath == [p \in Params |-> join(uploadDir, p)]

\* sanitizeFilenameSafe(newName.trim()), tabulated over the requests
sanitizedName == [n \in NewNames |-> sanitizeFilenameSafe(trim(n))]

\* path.join(currentDir, sanitizedNewName), tabulated over the requests
renamedPath ==
  [p \in Params |-> [n \in NewNames |-> join(dirname(joinedPath[p]), sanitizedName[n])]]

\* path.resolve of the upload directory and of the requested paths, tabulated
resolvedPath == [p \in {uploadDir} \cup {joinedPath[q] : q \in Params} |-> resolve(p)]

\* path.resolve(p)
Resolved(p) == IF p \in DOMAIN resolvedPath THEN resolvedPath[p] ELSE resolve(p)

\* the containment check of the handlers:
\* path.resolve(p).startsWith(path.resolve(config.uploadDir))
withinUploadDir(p) == startsWith(Resolved(p), Resolved(uploadDir))

Exists(f, p) == p \in DOMAIN f

\* p and everything below it
Subtree(f, p) ==
  LET pre == IF p = <<"/">> THEN p ELSE p \o <<"/">>
  IN  {q \in DOMAIN f : q = p \/ startsWith(q, pre)}

Restrict(f, S) == [q \in S |-> f[q]]

\* fs.unlink(p) / fs.rm(p, {recursive, force}) on an existing entry
Removed(f, p) == Restrict(f, DOMAIN f \ Subtree(f, p))

\* rename(2) of an existing src onto an absent or replaceable dst
Moved(f, src, dst) ==
  LET sub  == Subtree(f, src)
      rest == Restrict(f, DOMAIN f \ (sub \cup Subtree(f, dst)))
      to(q) == dst \o SubSeq(q, Len(src) + 1, Len(q))
  IN  IF src = dst THEN f
      ELSE rest @@ [n \in {to(q) : q \in sub} |->
                      f[CHOOSE q \in sub : to(q) = n]]

\* the errno of rename(2), "" when it succeeds
RenameErrno(f, src, dst) ==
  IF ~Exists(f, src) THEN "ENOENT"
  ELSE IF ~Exists(f, dst) \/ src = dst THEN ""
  ELSE IF f[src].type = "file"
       THEN IF f[dst].type = "directory" THEN "EISDIR" ELSE ""
       ELSE IF f[dst].type = "file" THEN "ENOTDIR"
            ELSE IF Subtree(f, dst) # {dst} THEN "ENOTEMPTY" ELSE ""

\* one filesystem call, as logged: guarded says whether the resolved path
\* had passed the handler's containment check when the call was issued
Call(name, p, passed) == [call |-> name, path |-> p, guarded |-> Resolved(p) \in passed]

MutatingCalls == {"unlink", "rm", "rename"}

Send(r, status) == resp' = [resp EXCEPT ![r] = [@ EXCEPT !.status = status]]

Goto(r, l) == pc' = [pc EXCEPT ![r] = l]

Issue(r, name, p) == sys' = [sys EXCEPT ![r] = Append(@, Call(name, p, chk'[r]))]

Accept(r, req0) ==
  /\ pc[r] = "idle"
  /\ nreq < MaxReq
  /\ nreq' = nreq + 1
  /\ req' = [req EXCEPT ![r] = req0]

\* path.relative(from, to) of two absolute paths
relative(from, to) ==
  LET f == normalizeSegs(split(from), <<>>, FALSE)
      t == normalizeSegs(split(to), <<>>, FALSE)
      same == {k \in 0..Len(f) : k <= Len(t) /\ SubSeq(f, 1, k) = SubSeq(t, 1, k)}
      k == Max(same)
  IN  joinSegs([i \in 1..(Len(f) - k) |-> <<".", ".">>] \o SubSeq(t, k + 1, Len(t)))

(***************************************************************************)
(* router.get('/info/*')                                                   *)
(***************************************************************************)
InfoStart(r) ==
  \E p \in Params :
    LET filePath == joinedPath[p]
    IN  /\ Accept(r, [op |-> "info", param |-> p, newName |-> <<>>])
        /\ IF ~withinUploadDir(filePath)
           THEN /\ Send(r, 403)
                /\ Goto(r, "done")
                /\ UNCHANGED <<chk, sys>>
           ELSE /\ chk' = [chk EXCEPT ![r] = @ \cup {Resolved(filePath)}]
                /\ Issue(r, "stat", filePath)
                /\ Goto(r, "info_stat")
                /\ UNCHANGED resp
        /\ UNCHANGED <<fs, walk, alloc, san>>

InfoStat(r) ==
  LET filePath == joinedPath[req[r].param]
  IN  /\ pc[r] = "info_stat"
      /\ IF Exists(fs, filePath)
         THEN resp' = [resp EXCEPT ![r] = [@ EXCEPT !.status = 200,
                                                   !.kind = fs[filePath].type,
                                                   !.body = fs[filePath].data]]
         ELSE Send(r, 404)
      /\ Goto(r, "done")
      /\ UNCHANGED <<fs, req, sys, chk, nreq, walk, alloc, san>>

(***************************************************************************)
(* router.get('/download/*')                                               *)
(***************************************************************************)
\* `attachment; filename="${fileName}"`
ContentDisposition(fileName) ==
  <<"a","t","t","a","c","h","m","e","n","t",";"," ",
    "f","i","l","e","n","a","m","e","=","\"">> \o fileName \o <<"\"">>

DownloadStart(r) ==
  \E p \in Params :
    /\ Accept(r, [op |-> "download", param |-> p, newName |-> <<>>])
    /\ chk' = chk
    /\ Issue(r, "access", joinedPath[p])
    /\ Goto(r, "dl_access")
    /\ UNCHANGED <<fs, resp, walk, alloc, san>>

DownloadAccess(r) ==
  LET filePath == joinedPath[req[r].param]
  IN  /\ pc[r] = "dl_access"
      /\ IF ~Exists(fs, filePath)
         THEN /\ Send(r, 404)
              /\ Goto(r, "done")
              /\ UNCHANGED <<chk, sys>>
         ELSE IF ~withinUploadDir(filePath)
         THEN /\ Send(r, 403)
              /\ Goto(r, "done")
              /\ UNCHANGED <<chk, sys>>
         ELSE /\ chk' = [chk EXCEPT ![r] = @ \cup {Resolved(filePath)}]
              /\ resp' = [resp EXCEPT ![r] =
                            [@ EXCEPT !.disposition =
                                 ContentDisposition(basename(req[r].param, <<>>))]]
              /\ Issue(r, "createReadStream", filePath)
              /\ Goto(r, "dl_open")
      /\ UNCHANGED <<fs, req, nreq, walk, alloc, san>>

\* the stream opens and reads: an error before any data finds the headers
\* unsent (500); the first chunk piped sends the headers and the data
DownloadOpen(r) ==
  LET filePath == joinedPath[req[r].param]
  IN  /\ pc[r] = "dl_open"
      /\ IF Exists(fs, filePath) /\ fs[filePath].type = "file"
         THEN /\ resp' = [resp EXCEPT ![r] = [@ EXCEPT !.status = 200,
                                                     !.body = fs[filePath].data]]
              /\ Goto(r, "dl_piping")
         ELSE /\ Send(r, 500)
              /\ Goto(r, "done")
      /\ UNCHANGED <<fs, req, sys, chk, nreq, walk, alloc, san>>

\* the stream ends and pipe() ends the response
DownloadEnd(r) ==
  /\ pc[r] = "dl_piping"
  /\ Goto(r, "done")
  /\ UNCHANGED <<fs, req, resp, sys, chk, nreq, walk, alloc, san>>

\* a read error after the headers were sent: the 'error' listener only
\* logs, and pipe() does not end the response
DownloadReadError(r) ==
  /\ pc[r] = "dl_piping"
  /\ Goto(r, "dl_stalled")
  /\ UNCHANGED <<fs, req, resp, sys, chk, nreq, walk, alloc, san>>

(***************************************************************************)
(* router.delete('/*')                                                     *)
(***************************************************************************)
\* the entry removed before the containment check is evaluated
DeleteStartCheckLast(r) ==
  \E p \in Params :
    LET itemPath == joinedPath[p]
    IN  /\ Accept(r, [op |-> "delete", param |-> p, newName |-> <<>>])
        /\ fs' = Removed(fs, itemPath)
        /\ Send(r, IF withinUploadDir(itemPath) THEN 200 ELSE 403)
        /\ Goto(r, "done")
        /\ UNCHANGED <<chk, sys, walk, alloc, san>>

DeleteStart(r) ==
  \E p \in Params :
    LET itemPath == joinedPath[p]
    IN  /\ Accept(r, [op |-> "delete", param |-> p, newName |-> <<>>])
        /\ IF ~withinUploadDir(itemPath)
           THEN /\ Send(r, 403)
                /\ Goto(r, "done")
                /\ UNCHANGED <<chk, sys>>
           ELSE /\ chk' = [chk EXCEPT ![r] = @ \cup {Resolved(itemPath)}]
                /\ Issue(r, "access", itemPath)
                /\ Goto(r, "del_access")
                /\ UNCHANGED resp
        /\ UNCHANGED <<fs, walk, alloc, san>>

DeleteAccess(r) ==
  LET itemPath == joinedPath[req[r].param]
  IN  /\ pc[r] = "del_access"
      /\ chk' = chk
      /\ IF ~Exists(fs, itemPath)
         THEN /\ Send(r, 404)
              /\ Goto(r, "done")
              /\ UNCHANGED sys
         ELSE /\ Issue(r, "stat", itemPath)
              /\ Goto(r, "del_stat")
              /\ UNCHANGED resp
      /\ UNCHANGED <<fs, req, nreq, walk, alloc, san>>

DeleteStat(r) ==
  LET itemPath == joinedPath[req[r].param]
  IN  /\ pc[r] = "del_stat"
      /\ chk' = chk
      /\ IF ~Exists(fs, itemPath)
         THEN /\ Send(r, 404)
              /\ Goto(r, "done")
              /\ UNCHANGED sys
         ELSE IF fs[itemPath].type = "directory"
         THEN /\ Issue(r, "rm", itemPath)
              /\ Goto(r, "del_rm")
              /\ UNCHANGED resp
         ELSE /\ Issue(r, "unlink", itemPath)
              /\ Goto(r, "del_unlink")
              /\ UNCHANGED resp
      /\ UNCHANGED <<fs, req, nreq, walk, alloc, san>>

\* fs.rm(itemPath, { recursive: true, force: true })
DeleteRm(r) ==
  LET itemPath == joinedPath[req[r].param]
  IN  /\ pc[r] = "del_rm"
      /\ fs' = Removed(fs, itemPath)
      /\ resp' = [resp EXCEPT ![r] = [@ EXCEPT !.status = 200, !.kind = "directory"]]
      /\ Goto(r, "done")
      /\ UNCHANGED <<req, sys, chk, nreq, walk, alloc, san>>

\* fs.unlink(itemPath)
DeleteUnlink(r) ==
  LET itemPath == joinedPath[req[r].param]
  IN  /\ pc[r] = "del_unlink"
      /\ IF ~Exists(fs, itemPath)
         THEN /\ Send(r, 404)
              /\ fs' = fs
         ELSE IF fs[itemPath].type = "directory"
         THEN /\ Send(r, 500)
              /\ fs' = fs
         ELSE /\ resp' = [resp EXCEPT ![r] = [@ EXCEPT !.status = 200, !.kind = "file"]]
              /\ fs' = Removed(fs, itemPath)
      /\ Goto(r, "done")
      /\ UNCHANGED <<req, sys, chk, nreq, walk, alloc, san>>

(***************************************************************************)
(* router.put('/rename/*')                                                 *)
(***************************************************************************)
\* !newName || typeof newName !== 'string' || newName.trim() === ''
IsBlankName(newName) == newName = <<>> \/ trim(newName) = <<>>

currentPath(r) == joinedPath[req[r].param]

sanitizedNewName(r) == sanitizedName[req[r].newName]

newPath(r) == renamedPath[req[r].param][req[r].newName]

RenameStart(r) ==
  \E p \in Params, n \in NewNames :
    LET cur == joinedPath[p]
    IN  /\ Accept(r, [op |-> "rename", param |-> p, newName |-> n])
        /\ IF IsBlankName(n)
           THEN /\ Send(r, 400)
                /\ Goto(r, "done")
                /\ UNCHANGED <<chk, sys>>
           ELSE IF ~withinUploadDir(cur)
           THEN /\ Send(r, 403)
                /\ Goto(r, "done")
                /\ UNCHANGED <<chk, sys>>
           ELSE /\ chk' = [chk EXCEPT ![r] = @ \cup {Resolved(cur)}]
                /\ Issue(r, "access", cur)
                /\ Goto(r, "rn_access")
                /\ UNCHANGED resp
        /\ UNCHANGED <<fs, walk, alloc, san>>

RenameAccess(r) ==
  /\ pc[r] = "rn_access"
  /\ chk' = chk
  /\ IF ~Exists(fs, currentPath(r))
     THEN /\ Send(r, 404)
          /\ Goto(r, "done")
          /\ UNCHANGED sys
     ELSE /\ Issue(r, "stat", currentPath(r))
          /\ Goto(r, "rn_stat")
          /\ UNCHANGED resp
  /\ UNCHANGED <<fs, req, nreq, walk, alloc, san>>

\* stat returns; the name is sanitized, the destination built and checked,
\* and the destination probe issued.  resp[r].kind keeps stats.isDirectory()
\* for the message
RenameStat(r) ==
  /\ pc[r] = "rn_stat"
  /\ IF ~Exists(fs, currentPath(r))
     THEN /\ Send(r, 404)
          /\ Goto(r, "done")
          /\ UNCHANGED <<chk, sys>>
     ELSE IF ~withinUploadDir(newPath(r))
     THEN /\ Send(r, 403)
          /\ Goto(r, "done")
          /\ UNCHANGED <<chk, sys>>
     ELSE /\ chk' = [chk EXCEPT ![r] = @ \cup {Resolved(newPath(r))}]
          /\ Issue(r, "access", newPath(r))
          /\ Goto(r, "rn_probe")
          /\ resp' = [resp EXCEPT ![r] = [@ EXCEPT !.kind = fs[currentPath(r)].type]]
  /\ UNCHANGED <<fs, req, nreq, walk, alloc, san>>


\* the probe's result ignored
DestinationNeverTaken(f, r) == FALSE

\* fs.access(newPath) returns: success is the conflict, ENOENT lets the
\* rename be issued
DestinationTaken(f, r) == Exists(f, newPath(r))

RenameProbe(r) ==
  /\ pc[r] = "rn_probe"
  /\ chk' = chk
  /\ IF DestinationTaken(fs, r)
     THEN /\ Send(r, 409)
          /\ Goto(r, "done")
          /\ UNCHANGED sys
     ELSE /\ Issue(r, "rename", currentPath(r))
          /\ Goto(r, "rn_rename")
          /\ UNCHANGED resp
  /\ UNCHANGED <<fs, req, nreq, walk, alloc, san>>

\* fs.rename(currentPath, newPath) executes
RenameExec(r) ==
  LET errno == RenameErrno(fs, currentPath(r), newPath(r))
  IN  /\ pc[r] = "rn_rename"
      /\ IF errno = ""
         THEN /\ fs' = Moved(fs, currentPath(r), newPath(r))
              /\ resp' = [resp EXCEPT ![r] =
                            [@ EXCEPT !.status = 200,
                                      !.newPath = relative(uploadDir, newPath(r))]]
         ELSE /\ fs' = fs
              /\ Send(r, IF errno = "ENOENT" THEN 404 ELSE 500)
      /\ Goto(r, "done")
      /\ UNCHANGED <<req, sys, chk, nreq, walk, alloc, san>>

(***************************************************************************)
(* router.get('/') and getDirectoryContents                                *)
(***************************************************************************)
\* a.localeCompare(b): space, punctuation, then digits, then letters; letter case
\* only breaks ties, lower case first
Collation ==
  <<" ", "_", "-", ".", "\"", "(", ")", "0","1","2","3","4","5","6","7","8","9">>
  \o LowerLetters

RankOf(c) == IF c \in Range(Collation) THEN IndexIn(Collation, c) ELSE 0

\* -1, 0 or 1 by the first difference of two key sequences
CompareKeys(ka, kb) ==
  LET n    == IF Len(ka) < Len(kb) THEN Len(ka) ELSE Len(kb)
      diff == {i \in 1..n : ka[i] # kb[i]}
  IN  IF diff # {}
      THEN IF ka[Min(diff)] < kb[Min(diff)] THEN -1 ELSE 1
      ELSE IF Len(ka) < Len(kb) THEN -1 ELSE IF Len(ka) > Len(kb) THEN 1 ELSE 0

CaseRank(c) == IF c \in Range(UpperLetters) THEN 1 ELSE 0

PrimaryRank(c) == RankOf(LowerChar(c))

PrimaryKey(s) == [i \in 1..Len(s) |-> PrimaryRank(s[i])]

CaseKey(s) == [i \in 1..Len(s) |-> CaseRank(s[i])]

localeCompare(a, b) ==
  IF CompareKeys(PrimaryKey(a), PrimaryKey(b)) # 0
  THEN CompareKeys(PrimaryKey(a), PrimaryKey(b))
  ELSE CompareKeys(CaseKey(a), CaseKey(b))

\* a comparator by name alone
NameBefore(a, b) == localeCompare(a.name, b.name) < 0

\* the comparator of items.sort: directories first, then by name
ItemBefore(a, b) ==
  IF a.type # b.type THEN a.type = "directory" ELSE localeCompare(a.name, b.name) < 0

RECURSIVE InsertItem(_, _)
InsertItem(sorted, x) ==
  IF sorted = <<>> THEN <<x>>
  ELSE IF ItemBefore(x, Head(sorted)) THEN <<x>> \o sorted
  ELSE <<Head(sorted)>> \o InsertItem(Tail(sorted), x)

\* items.sort(...)
RECURSIVE SortItems(_)
SortItems(items) ==
  IF items = <<>> THEN <<>>
  ELSE InsertItem(SortItems(SubSeq(items, 1, Len(items) - 1)), items[Len(items)])

\* the sizes of the files of one level, directories counting nothing
RECURSIVE calculateTotalSizeShallow(_)
calculateTotalSizeShallow(items) ==
  IF items = <<>> THEN 0
  ELSE (IF Head(items).type = "file" THEN Head(items).size ELSE 0)
       + calculateTotalSizeShallow(Tail(items))

RECURSIVE calculateTotalSize(_)
calculateTotalSize(items) ==
  IF items = <<>> THEN 0
  ELSE LET item == Head(items)
       IN  (IF item.type = "file" THEN item.size
            ELSE IF item.type = "directory" THEN calculateTotalSize(item.children)
            ELSE 0)
           + calculateTotalSize(Tail(items))

RECURSIVE countFiles(_)
countFiles(items) ==
  IF items = <<>> THEN 0
  ELSE LET item == Head(items)
       IN  (IF item.type = "file" THEN 1
            ELSE IF item.type = "directory" THEN countFiles(item.children)
            ELSE 0)
           + countFiles(Tail(items))

\* entry === '.metadata'
IsMetadataEntry(entry) == entry = NameMeta

\* entry === '.metadata' || entry.startsWith('.')
IsHidden(entry) == entry = NameMeta \/ startsWith(entry, <<".">>)

RECURSIVE SkipHidden(_)
SkipHidden(entries) ==
  IF entries # <<>> /\ IsHidden(Head(entries)) THEN SkipHidden(Tail(entries)) ELSE entries

\* the names fs.readdir(dirPath) returns
Children(f, dirPath) ==
  {LastSegment(q) : q \in {q \in DOMAIN f : q # dirPath /\ dirname(q) = dirPath}}

\* the orders readdir may return them in
RECURSIVE Orders(_)
Orders(S) ==
  IF S = {} THEN {<<>>}
  ELSE UNION {{<<x>> \o o : o \in Orders(S \ {x})} : x \in S}

Frame(dirPath, relativePath) ==
  [dirPath |-> dirPath, relativePath |-> relativePath, todo |-> <<>>, items |-> <<>>]

\* the synchronous code between two awaits of getDirectoryContents: hidden
\* entries are skipped up to the next entry to stat; a call with no entry
\* left sorts and returns its items, and its caller pushes the directory
\* item built from them and goes on with its own loop
RECURSIVE Advance(_)
Advance(stack) ==
  LET top  == stack[Len(stack)]
      todo == SkipHidden(top.todo)
  IN  IF todo # <<>>
      THEN [stack |-> [stack EXCEPT ![Len(stack)].todo = todo], done |-> FALSE, items |-> <<>>]
      ELSE LET sorted == SortItems(top.items)
           IN  IF Len(stack) = 1
               THEN [stack |-> <<>>, done |-> TRUE, items |-> sorted]
               ELSE LET caller == stack[Len(stack) - 1]
                        item   == [name |-> Head(caller.todo), type |-> "directory",
                                   path |-> top.relativePath,
                                   size |-> calculateTotalSize(sorted),
                                   children |-> sorted]
                    IN  Advance(Append(SubSeq(stack, 1, Len(stack) - 2),
                                       [caller EXCEPT !.items = Append(@, item),
                                                      !.todo = Tail(@)]))

\* the walk goes on to its next await, or the listing is sent
ListStep(r, stack) ==
  LET a == Advance(stack)
  IN  /\ walk' = [walk EXCEPT ![r] = a.stack]
      /\ IF a.done
         THEN /\ resp' = [resp EXCEPT ![r] =
                            [@ EXCEPT !.status = 200, !.items = a.items,
                                      !.totalFiles = countFiles(a.items),
                                      !.totalSize = calculateTotalSize(a.items)]]
              /\ Goto(r, "done")
         ELSE /\ resp' = resp
              /\ Goto(r, "ls_stat")

ListStart(r) ==
  /\ Accept(r, [op |-> "list", param |-> <<>>, newName |-> <<>>])
  /\ walk' = [walk EXCEPT ![r] = <<Frame(uploadDir, <<>>)>>]
  /\ Goto(r, "ls_readdir")
  /\ UNCHANGED <<fs, resp, sys, chk, alloc, san>>

\* fs.readdir(dirPath) returns, or throws and the call returns no items
ListReaddir(r) ==
  LET stack == walk[r]
      top   == stack[Len(stack)]
  IN  /\ pc[r] = "ls_readdir"
      /\ IF Exists(fs, top.dirPath) /\ fs[top.dirPath].type = "directory"
         THEN \E entries \in Orders(Children(fs, top.dirPath)) :
                ListStep(r, [stack EXCEPT ![Len(stack)].todo = entries])
         ELSE ListStep(r, stack)
      /\ UNCHANGED <<fs, req, sys, chk, nreq, alloc, san>>

\* the loop is left at the failing entry
SkipRest(stack) == [stack EXCEPT ![Len(stack)].todo = <<>>]

\* catch (statErr) { ...; continue; }
SkipEntry(stack) == [stack EXCEPT ![Len(stack)].todo = Tail(@)]

\* fs.stat(fullPath) returns, or throws and the entry is skipped
ListStat(r) ==
  LET stack    == walk[r]
      top      == stack[Len(stack)]
      entry    == Head(top.todo)
      fullPath == join(top.dirPath, entry)
      itemRelativePath ==
        IF top.relativePath # <<>> THEN top.relativePath \o <<"/">> \o entry ELSE entry
  IN  /\ pc[r] = "ls_stat"
      /\ IF ~Exists(fs, fullPath)
         THEN ListStep(r, SkipEntry(stack))
         ELSE IF fs[fullPath].type = "directory"
         THEN /\ walk' = [walk EXCEPT ![r] = Append(stack, Frame(fullPath, itemRelativePath))]
              /\ Goto(r, "ls_readdir")
              /\ resp' = resp
         ELSE ListStep(r, [stack EXCEPT
                 ![Len(stack)].items = Append(@, [name |-> entry, type |-> "file",
                                                  path |-> itemRelativePath,
                                                  size |-> fs[fullPath].data,
                                                  children |-> <<>>]),
                 ![Len(stack)].todo = Tail(@)])
      /\ UNCHANGED <<fs, req, sys, chk, nreq, alloc, san>>

(***************************************************************************)
(* The handlers together                                                   *)
(***************************************************************************)
\* the response is complete; the slot serves the next request
Finish(r) ==
  /\ pc[r] = "done"
  /\ pc' = [pc EXCEPT ![r] = "idle"]
  /\ req' = [req EXCEPT ![r] = NoReq]
  /\ resp' = [resp EXCEPT ![r] = NoResp]
  /\ sys' = [sys EXCEPT ![r] = <<>>]
  /\ chk' = [chk EXCEPT ![r] = {}]
  /\ UNCHANGED <<fs, nreq, walk, alloc, san>>

NoAlloc == <<>>

NoSan == [phase |-> "off", input |-> <<>>, once |-> <<>>, twice |-> <<>>, path |-> <<>>]

Init ==
  /\ fs \in InitialFilesystems
  /\ pc = [r \in Procs |-> "idle"]
  /\ req = [r \in Procs |-> NoReq]
  /\ resp = [r \in Procs |-> NoResp]
  /\ sys = [r \in Procs |-> <<>>]
  /\ chk = [r \in Procs |-> {}]
  /\ nreq = 0
  /\ walk = [r \in Procs |-> <<>>]
  /\ alloc = NoAlloc
  /\ san = NoSan

Next ==
  \E r \in Procs :
    \/ InfoStart(r)
    \/ InfoStat(r)
    \/ DownloadStart(r)
    \/ DownloadAccess(r)
    \/ DownloadOpen(r)
    \/ DownloadEnd(r)
    \/ DownloadReadError(r)
    \/ DeleteStart(r)
    \/ DeleteAccess(r)
    \/ DeleteStat(r)
    \/ DeleteRm(r)
    \/ DeleteUnlink(r)
    \/ RenameStart(r)
    \/ RenameAccess(r)
    \/ RenameStat(r)
    \/ RenameProbe(r)
    \/ RenameExec(r)
    \/ ListStart(r)
    \/ ListReaddir(r)
    \/ ListStat(r)
    \/ Finish(r)

Spec == Init /\ [][Next]_vars

\* what the event loop runs of a download once its request is accepted:
\* the pending filesystem call or stream event happens and its continuation
\* runs
DownloadStep(r) ==
  \/ DownloadAccess(r)
  \/ DownloadOpen(r)
  \/ DownloadEnd(r)
  \/ DownloadReadError(r)

SpecFair == Spec /\ \A r \in Procs : WF_vars(DownloadStep(r))

(***************************************************************************)
(* The sanitizer, run on bounded inputs                                    *)
(***************************************************************************)
\* longest name drawn character by character
MaxNameLen == 4

\* longest tail put after a long run of letters
MaxTailLen == 2

SanChars == {"c", "O", "N", "1", ".", "_", "-", " ", "?", "/", "<e9>"}

StringsUpTo(n, chars) == UNION {[1..k -> chars] : k \in 0..n}

\* a base one character short of maxLength
LongRun == [i \in 1..(maxLength - 1) |-> "a"]

LowerFirst(s) == [i \in 1..Len(s) |-> IF i = 1 THEN LowerChar(s[i]) ELSE s[i]]

\* every reserved device name, in three letter cases, behind and before
\* what the sanitizer strips or takes as an extension
ReservedInputs ==
  {pre \o v \o suf :
     pre \in {<<>>, <<".">>, <<"?">>},
     v \in UNION {{n, toLowerCase(n), LowerFirst(n)} : n \in reservedNames},
     suf \in {<<>>, <<".">>, <<".", "N">>, <<"?">>, <<"_">>, <<".", "?">>}}

\* paths with separators and navigation tokens at the front, inside and at
\* the end
PathInputs ==
  {pre \o mid \o suf :
     pre \in {<<>>, <<"/">>, <<".", ".", "/">>, <<"/", ".", ".", "/">>, <<".", "/">>},
     mid \in {<<>>, <<"c">>, <<"c", "/", ".", ".", "/", "N">>, <<"c", "/", "/", "N">>,
              <<".", ".", ".", "/", "c">>, <<"c", "O", "N", "/", "?">>},
     suf \in {<<>>, <<"/">>, <<"/", ".", ".">>, <<"/", ".", ".", "/", ".", ".">>}}

SanInputs ==
  StringsUpTo(MaxNameLen, SanChars)
  \cup {LongRun \o t : t \in StringsUpTo(MaxTailLen, SanChars)}
  \cup ReservedInputs
  \cup PathInputs

InitSan ==
  /\ fs = BaseFs
  /\ pc = [r \in Procs |-> "idle"]
  /\ req = [r \in Procs |-> NoReq]
  /\ resp = [r \in Procs |-> NoResp]
  /\ sys = [r \in Procs |-> <<>>]
  /\ chk = [r \in Procs |-> {}]
  /\ nreq = 0
  /\ walk = [r \in Procs |-> <<>>]
  /\ alloc = NoAlloc
  /\ san \in {[phase |-> "input", input |-> i, once |-> <<>>, twice |-> <<>>, path |-> <<>>] :
               i \in SanInputs}

SanitizeOnce ==
  /\ san.phase = "input"
  /\ san' = [san EXCEPT !.phase = "once", !.once = sanitizeFilenameSafe(san.input)]
  /\ UNCHANGED <<hvars, alloc>>

SanitizeTwice ==
  /\ san.phase = "once"
  /\ san' = [san EXCEPT !.phase = "twice", !.twice = sanitizeFilenameSafe(san.once)]
  /\ UNCHANGED <<hvars, alloc>>

SanitizePath ==
  /\ san.phase = "input"
  /\ san' = [san EXCEPT !.phase = "path", !.path = sanitizePathPreserveDirsSafe(san.input)]
  /\ UNCHANGED <<hvars, alloc>>

NextSan == SanitizeOnce \/ SanitizeTwice \/ SanitizePath

SpecSan == InitSan /\ [][NextSan]_vars

(***************************************************************************)
(* getUniqueFilePath / getUniqueFolderPath (fileUtils), called together    *)
(***************************************************************************)
\* concurrent allocator calls
NumCallers == 3

Callers == 1..NumCallers

\* `${counter}`
RECURSIVE Decimal(_)
Decimal(n) ==
  LET digit == <<"0","1","2","3","4","5","6","7","8","9">>[(n % 10) + 1]
  IN  IF n < 10 THEN <<digit>> ELSE Decimal(n \div 10) \o <<digit>>

\* ` (${counter})`
CounterSuffix(counter) == <<" ", "(">> \o Decimal(counter) \o <<")">>

\* the suffix put behind the extension
NextFilePathAfterExt(filePath, counter) == filePath \o CounterSuffix(counter)

\* the counter joined with an underscore: `${baseName}_${counter}${ext}`
NextFilePathUnderscore(filePath, counter) ==
  LET ext      == extname(filePath)
      baseName == basename(filePath, ext)
  IN  join(dirname(filePath), baseName \o <<"_">> \o Decimal(counter) \o ext)

\* path.join(dir, `${baseName} (${counter})${ext}`)
NextFilePath(filePath, counter) ==
  LET ext      == extname(filePath)
      baseName == basename(filePath, ext)
  IN  join(dirname(filePath), baseName \o CounterSuffix(counter) \o ext)

\* `${folderPath} (${counter})`
NextFolderPath(folderPath, counter) == folderPath \o CounterSuffix(counter)

NameFt == <<"f", ".", "t">>

\* the desired paths of the calls: a file name with an extension, one
\* without, and one whose parent directory does not exist
DesiredPaths ==
  { join(uploadDir, NameFt), join(uploadDir, <<"g">>), join(uploadDir, <<"n","/","f">>) }

\* from this counter on the candidates made by callers outside the model are
\* not told apart
MaxCounter == 3

\* path.join(dir, `${baseName} (${counter})${ext}`) of the calls, tabulated
candidateFilePath ==
  [d \in DesiredPaths |-> [k \in 1..(MaxCounter + NumCallers + 3) |-> NextFilePath(d, k)]]

\* path.dirname of every path a call may try, tabulated
candidateParent ==
  [p \in DesiredPaths
         \cup {candidateFilePath[d][k] : d \in DesiredPaths, k \in 1..(MaxCounter + NumCallers + 3)}
         \cup {NextFolderPath(d, k) : d \in DesiredPaths, k \in 1..(MaxCounter + NumCallers + 3)}
     |-> dirname(p)]

\* entries that may be there before the calls
EarlierEntries ==
  { EmptyFs,
    (join(uploadDir, NameFt) :> File(1)),
    (join(uploadDir, NameFt) :> File(1)) @@ (NextFilePath(join(uploadDir, NameFt), 1) :> File(2)),
    (join(uploadDir, NameFt) :> Dir) @@ (NextFolderPath(join(uploadDir, NameFt), 1) :> Dir),
    (NextFilePath(join(uploadDir, <<"g">>), 1) :> File(3)) }

IdleCall ==
  [pc |-> "idle", kind |-> "", desired |-> <<>>, finalPath |-> <<>>, counter |-> 0,
   error |-> ""]

\* the owner of entries created by callers outside the model
StormCaller == NumCallers + 1

\* err.code === 'EEXIST' of any error
RetryOnAnyError(errno) == errno # ""

\* err.code === 'EEXIST'
RetryOn(errno) == errno = "EEXIST"

\* a retry at the horizon on a candidate that a caller outside the model
\* made: the next candidate is a new path nobody created yet, and it is
\* given the name of this one
PastHorizon(f, a) == a.counter >= MaxCounter /\ f[a.finalPath].owner = StormCaller

Forgotten(f, p) == [q \in DOMAIN f \ {p} |-> f[q]]

\* open(p, 'w') in place of 'wx': an existing entry is no error
CreateErrnoNotExclusive(f, p) ==
  IF Exists(f, p) THEN ""
  ELSE IF ~Exists(f, candidateParent[p]) THEN "ENOENT"
  ELSE IF f[candidateParent[p]].type # "directory" THEN "ENOTDIR"
  ELSE ""

\* the errno of open(p, 'wx') and of mkdir(p, { recursive: false }),
\* "" when the entry can be created
CreateExclErrno(f, p) ==
  IF Exists(f, p) THEN "EEXIST"
  ELSE IF ~Exists(f, candidateParent[p]) THEN "ENOENT"
  ELSE IF f[candidateParent[p]].type # "directory" THEN "ENOTDIR"
  ELSE ""

\* the entry is created by caller c
Created(f, p, type, c) == (p :> [type |-> type, data |-> 0, owner |-> c]) @@ f

InitAlloc ==
  /\ fs \in {BaseFs @@ e : e \in EarlierEntries}
  /\ pc = [r \in Procs |-> "idle"]
  /\ req = [r \in Procs |-> NoReq]
  /\ resp = [r \in Procs |-> NoResp]
  /\ sys = [r \in Procs |-> <<>>]
  /\ chk = [r \in Procs |-> {}]
  /\ nreq = 0
  /\ walk = [r \in Procs |-> <<>>]
  /\ alloc = [c \in Callers |-> IdleCall]
  /\ san = NoSan

\* the call is made: counter = 1, finalPath = the desired path, and the
\* first create attempt is issued
AllocCall(c) ==
  \E kind \in {"file", "directory"}, d \in DesiredPaths :
    /\ alloc[c].pc = "idle"
    /\ alloc' = [alloc EXCEPT ![c] = [pc |-> "trying", kind |-> kind, desired |-> d,
                                      finalPath |-> d, counter |-> 1, error |-> ""]]
    /\ UNCHANGED <<hvars, san>>

\* fs.promises.open(finalPath, 'wx') executes
OpenExclusive(c) ==
  LET a     == alloc[c]
      errno == CreateExclErrno(fs, a.finalPath)
  IN  /\ a.pc = "trying"
      /\ a.kind = "file"
      /\ IF errno = ""
         THEN /\ fs' = Created(fs, a.finalPath, "file", c)
              /\ alloc' = [alloc EXCEPT ![c].pc = "returned"]
         ELSE IF RetryOn(errno)
         THEN IF PastHorizon(fs, a)
              THEN /\ fs' = Forgotten(fs, a.finalPath)
                   /\ alloc' = alloc
              ELSE /\ fs' = fs
                   /\ alloc' = [alloc EXCEPT ![c].finalPath = candidateFilePath[a.desired][a.counter],
                                             ![c].counter = a.counter + 1]
         ELSE /\ fs' = fs
              /\ alloc' = [alloc EXCEPT ![c].pc = "threw", ![c].error = errno]
      /\ UNCHANGED <<pc, req, resp, sys, chk, nreq, walk, san>>

\* fs.promises.mkdir(finalPath, { recursive: false }) executes
MkdirExclusive(c) ==
  LET a     == alloc[c]
      errno == CreateExclErrno(fs, a.finalPath)
  IN  /\ a.pc = "trying"
      /\ a.kind = "directory"
      /\ IF errno = ""
         THEN /\ fs' = Created(fs, a.finalPath, "directory", c)
              /\ alloc' = [alloc EXCEPT ![c].pc = "returned"]
         ELSE IF RetryOn(errno)
         THEN IF PastHorizon(fs, a)
              THEN /\ fs' = Forgotten(fs, a.finalPath)
                   /\ alloc' = alloc
              ELSE /\ fs' = fs
                   /\ alloc' = [alloc EXCEPT ![c].finalPath = NextFolderPath(a.desired, a.counter),
                                             ![c].counter = a.counter + 1]
         ELSE /\ fs' = fs
              /\ alloc' = [alloc EXCEPT ![c].pc = "threw", ![c].error = errno]
      /\ UNCHANGED <<pc, req, resp, sys, chk, nreq, walk, san>>

\* the create attempt fails with an error that is not EEXIST (EACCES,
\* ENOSPC, EMFILE ...): the error is thrown to the caller
CreateFails(c) ==
  /\ alloc[c].pc = "trying"
  /\ alloc' = [alloc EXCEPT ![c].pc = "threw", ![c].error = "EACCES"]
  /\ UNCHANGED <<hvars, san>>

NextAlloc ==
  \E c \in Callers :
    \/ AllocCall(c)
    \/ OpenExclusive(c)
    \/ MkdirExclusive(c)
    \/ CreateFails(c)

SpecAlloc == InitAlloc /\ [][NextAlloc]_vars

\* a caller outside the model creates the candidate that call c tries next
StormAhead(c) ==
  LET a == alloc[c]
  IN  /\ a.pc = "trying"
      /\ CreateExclErrno(fs, a.finalPath) = ""
      /\ fs' = Created(fs, a.finalPath, a.kind, StormCaller)
      /\ UNCHANGED <<pc, req, resp, sys, chk, nreq, walk, alloc, san>>

NextStorm ==
  \E c \in Callers :
    \/ AllocCall(c)
    \/ OpenExclusive(c)
    \/ MkdirExclusive(c)
    \/ CreateFails(c)
    \/ StormAhead(c)

\* every create attempt a call has issued is executed
SpecStorm ==
  /\ InitAlloc
  /\ [][NextStorm]_vars
  /\ \A c \in Callers : WF_vars(OpenExclusive(c) \/ MkdirExclusive(c))

(***************************************************************************)
(* Properties                                                              *)
(***************************************************************************)
\* containment as specified: the resolved candidate is the resolved root,
\* or starts with the resolved root followed by a separator
IsContained(candidate, root) ==
  resolve(candidate) = resolve(root)
  \/ startsWith(resolve(candidate), resolve(root) \o <<"/">>)

Served(r) == req[r].op \in Ops

Calls(r, names) == {i \in 1..Len(sys[r]) : sys[r][i].call \in names}

\* C1: the handlers' containment check accepts a resolved path iff it is
\* the resolved upload root or starts with the root followed by a path
\* separator: every path a handler accepted is contained, and every request
\* answered 403 had a source or destination that is not.
C1_CheckIsSeparatorPrefix ==
  \A r \in Procs :
    /\ \A p \in chk[r] : IsContained(p, uploadDir)
    /\ (Served(r) /\ resp[r].status = 403) =>
         (~IsContained(currentPath(r), uploadDir)
          \/ (req[r].op = "rename" /\ ~IsContained(newPath(r), uploadDir)))

\* C2: in info, download, delete and rename, every filesystem call on a
\* request-derived path is issued after the containment check on that path
\* has passed.
C2_CheckBeforeSyscall ==
  \A r \in Procs : Served(r) => \A i \in 1..Len(sys[r]) : sys[r][i].guarded

\* C3: a finished info, download, delete or rename request (with a
\* non-blank new name) whose path resolves outside the upload root was
\* answered 403, whether or not the target exists.
C3_OutsideAlwaysDenied ==
  \A r \in Procs :
    (/\ pc[r] = "done"
     /\ Served(r)
     /\ ~(req[r].op = "rename" /\ IsBlankName(req[r].newName))
     /\ ~IsContained(currentPath(r), uploadDir))
    => resp[r].status = 403

Returned(c) == alloc[c].pc = "returned"

\* C4: the allocator calls that returned hold pairwise distinct paths, each
\* an entry of the kind asked for that the caller itself created, and no
\* step of any call changes or removes an entry that exists.
C4_DistinctOwnPaths ==
  /\ [](\A c \in Callers :
          Returned(c) =>
            /\ Exists(fs, alloc[c].finalPath)
            /\ fs[alloc[c].finalPath].owner = c
            /\ fs[alloc[c].finalPath].type = alloc[c].kind
            /\ \A c2 \in Callers \ {c} :
                 Returned(c2) => alloc[c2].finalPath # alloc[c].finalPath)
  /\ [][\A p \in DOMAIN fs : p \in DOMAIN fs' /\ fs'[p] = fs[p]]_vars

\* three calls for the same desired path have returned three paths
C4_Witness ==
  \E c1, c2, c3 \in Callers :
    /\ c1 < c2 /\ c2 < c3
    /\ Returned(c1) /\ Returned(c2) /\ Returned(c3)
    /\ alloc[c1].desired = alloc[c2].desired
    /\ alloc[c2].desired = alloc[c3].desired
    /\ alloc[c1].kind = alloc[c2].kind
    /\ alloc[c2].kind = alloc[c3].kind
    /\ alloc[c1].counter > 1

\* C5: when a rename's destination probe finds the destination present the
\* request is answered 409 in that step and the filesystem is left as it is;
\* a request answered 409 has issued no unlink, rm or rename.
C5_ConflictLeavesFilesystem ==
  /\ [][\A r \in Procs :
          (pc[r] = "rn_probe" /\ pc'[r] # "rn_probe" /\ Exists(fs, newPath(r)))
          => (resp'[r].status = 409 /\ pc'[r] = "done" /\ fs' = fs)]_vars
  /\ [](\A r \in Procs : resp[r].status = 409 => Calls(r, MutatingCalls) = {})

\* a rename of one entry onto another existing entry was answered 409 and
\* both are still there
C5_Witness ==
  \E r \in Procs :
    /\ req[r].op = "rename"
    /\ resp[r].status = 409
    /\ currentPath(r) # newPath(r)
    /\ Exists(fs, currentPath(r))
    /\ Exists(fs, newPath(r))

\* the trimmed new name is made of filesystem-reserved characters only
OnlyReservedChars(name) ==
  trim(name) # <<>> /\ \A i \in 1..Len(trim(name)) : trim(name)[i] \in FsReservedChars

\* C6: a rename whose new name is non-blank but made only of characters the
\* sanitizer strips is rejected with 400 (403 or 404 if its source is
\* refused first) and issues no rename call.
C6_StrippedNameRejected ==
  \A r \in Procs :
    (req[r].op = "rename" /\ OnlyReservedChars(req[r].newName))
    => (resp[r].status \in {0, 400, 403, 404} /\ Calls(r, {"rename"}) = {})

InMetadata(p) ==
  resolve(p) = METADATA_DIR \/ startsWith(resolve(p), METADATA_DIR \o <<"/">>)

RECURSIVE AllItems(_)
AllItems(items) ==
  IF items = <<>> THEN {}
  ELSE {Head(items)} \cup AllItems(Head(items).children) \cup AllItems(Tail(items))

\* C7: the metadata directory and its contents are in no listing, no
\* download of a path inside it streams content, and no rename is issued
\* from or to a path inside or equal to it.
C7_MetadataNeverExposed ==
  \A r \in Procs :
    /\ \A item \in AllItems(resp[r].items) :
         ~startsWith(item.name, <<".">>) /\ ~InMetadata(join(uploadDir, item.path))
    /\ (req[r].op = "download" /\ InMetadata(currentPath(r))) => resp[r].body = 0
    /\ (req[r].op = "rename" /\ Calls(r, {"rename"}) # {})
         => (~InMetadata(currentPath(r)) /\ ~InMetadata(newPath(r)))

\* [A-Za-z0-9._-]
AllowedChars == Letters \cup Digits \cup {".", "_", "-"}

\* C8: sanitizeFilenameSafe(s) is non-empty and has only characters of
\* [A-Za-z0-9._-].
C8_SafeAndNonEmpty ==
  san.phase \in {"once", "twice"} =>
    (san.once # <<>> /\ \A i \in 1..Len(san.once) : san.once[i] \in AllowedChars)

\* an input with a character outside the set, in its extension, was sanitized
C8_Witness ==
  /\ san.phase = "once"
  /\ \E i \in 1..Len(extname(san.input)) : extname(san.input)[i] \notin AllowedChars

\* C9: sanitizeFilenameSafe(sanitizeFilenameSafe(x)) = sanitizeFilenameSafe(x).
C9_Idempotent == san.phase = "twice" => san.twice = san.once

\* a reserved device name, in any letter case
IsDeviceName(s) == \E n \in reservedNames : toUpperCase(s) = n

\* C10: when the stripped base of the input is a reserved device name in
\* any letter case, the result is that base, "_file" and the cleaned
\* extension, and neither the result nor its base is a reserved device name.
C10_ReservedGetsSuffix ==
  (san.phase \in {"once", "twice"} /\ IsDeviceName(StrippedBase(san.input))) =>
    /\ san.once = StrippedBase(san.input) \o FileSuffix \o CleanExt(extname(san.input))
    /\ ~IsDeviceName(san.once)
    /\ ~IsDeviceName(basename(san.once, extname(san.once)))

\* a lower-case device name with an extension was sanitized
C10_Witness ==
  /\ san.phase = "once"
  /\ IsDeviceName(StrippedBase(san.input))
  /\ StrippedBase(san.input) \notin reservedNames
  /\ extname(san.input) # <<>>

\* the segments of a relative path; the empty path has none
Segments(p) == IF p = <<>> THEN <<>> ELSE split(p)

\* C11: the result of sanitizePathPreserveDirsSafe does not start with '/',
\* none of its segments is '.', '..' or empty, and the result joined onto a
\* parent directory and resolved is the parent or a path below it.
C11_SanitizedPathStaysInside ==
  san.phase = "path" =>
    /\ ~isAbsolute(san.path)
    /\ \A i \in 1..Len(Segments(san.path)) : KeptPart(Segments(san.path)[i])
    /\ IsContained(join(uploadDir, san.path), uploadDir)

\* a path with a '..' segment and a leading separator was sanitized to a
\* path of several segments
C11_Witness ==
  /\ san.phase = "path"
  /\ isAbsolute(san.input)
  /\ \E i \in 1..Len(split(san.input)) : split(san.input)[i] = <<".", ".">>
  /\ Len(Segments(san.path)) > 1

\* the file entries at all depths of a returned tree
FileEntries(items) == {x \in AllItems(items) : x.type = "file"}

RECURSIVE SumSizes(_)
SumSizes(S) ==
  IF S = {} THEN 0
  ELSE LET x == CHOOSE y \in S : TRUE IN x.size + SumSizes(S \ {x})

Listed(r) == req[r].op = "list" /\ resp[r].status = 200

\* C12: in a listing, totalFiles is the number of file entries at all depths
\* of the returned tree, totalSize is the sum of their sizes, and the size of
\* every directory entry is the sum of the sizes of the file entries of its
\* own returned subtree.
C12_AggregatesMatchTree ==
  \A r \in Procs :
    Listed(r) =>
      /\ resp[r].totalFiles = Cardinality(FileEntries(resp[r].items))
      /\ resp[r].totalSize = SumSizes(FileEntries(resp[r].items))
      /\ \A d \in AllItems(resp[r].items) :
           d.type = "directory" => d.size = SumSizes(FileEntries(d.children))

\* a listing of a subdirectory with one file and of a top-level file
C12_Witness ==
  \E r \in Procs :
    /\ Listed(r)
    /\ resp[r].totalFiles = 2
    /\ resp[r].totalSize = 30
    /\ \E d \in AllItems(resp[r].items) : d.type = "directory" /\ d.children # <<>>

\* the names along a relative path
HiddenSegment(path) == \E i \in 1..Len(split(path)) : startsWith(split(path)[i], <<".">>)

\* C18: in a listing no entry at any depth has a name starting with '.', no
\* entry lies below a dot-prefixed directory, and the file count and the
\* sizes count such entries nowhere.
C18_NoHiddenEntries ==
  \A r \in Procs :
    Listed(r) =>
      /\ \A item \in AllItems(resp[r].items) :
           /\ ~startsWith(item.name, <<".">>)
           /\ ~HiddenSegment(item.path)
           /\ item.type = "directory" =>
                item.size = SumSizes({x \in FileEntries(item.children) : ~HiddenSegment(x.path)})
      /\ resp[r].totalFiles =
           Cardinality({x \in FileEntries(resp[r].items) : ~HiddenSegment(x.path)})
      /\ resp[r].totalSize =
           SumSizes({x \in FileEntries(resp[r].items) : ~HiddenSegment(x.path)})

\* a listing that walked the directory s while its hidden file and the
\* metadata directory with its file were there
C18_Witness ==
  \E r \in Procs :
    /\ Listed(r)
    /\ \E d \in AllItems(resp[r].items) : d.name = <<"s">> /\ d.children # <<>>
    /\ join(uploadDir, <<"s","/",".","h">>) \in DOMAIN fs
    /\ join(METADATA_DIR, <<"m">>) \in DOMAIN fs

\* the lists of a returned tree: the root list and every directory's children
Levels(items) == {items} \cup {d.children : d \in {x \in AllItems(items) : x.type = "directory"}}

\* C19: at every level of a listing all directory entries come before all
\* file entries, and within either group the names are in non-decreasing
\* locale order.
C19_LevelsOrdered ==
  \A r \in Procs :
    Listed(r) =>
      \A level \in Levels(resp[r].items) :
        \A i, j \in 1..Len(level) :
          i < j =>
            /\ ~(level[i].type = "file" /\ level[j].type = "directory")
            /\ level[i].type = level[j].type
                 => localeCompare(level[i].name, level[j].name) <= 0

\* a listing with a directory ahead of a file whose name sorts first, and
\* with two files at one level
C19_Witness ==
  \E r \in Procs :
    /\ Listed(r)
    /\ \E i, j \in 1..Len(resp[r].items) :
         /\ i < j
         /\ resp[r].items[i].type = "directory" /\ resp[r].items[j].type = "file"
         /\ localeCompare(resp[r].items[j].name, resp[r].items[i].name) < 0
    /\ \E i, j \in 1..Len(resp[r].items) :
         i < j /\ resp[r].items[i].type = "file" /\ resp[r].items[j].type = "file"

Under(p, q) == p = q \/ startsWith(p, q \o <<"/">>)

\* the paths the mutating calls of handler o work on
TouchedBy(o) ==
  {sys[o][i].path : i \in Calls(o, MutatingCalls)}
  \cup (IF Calls(o, {"rename"}) # {} THEN {newPath(o)} ELSE {})

\* no other handler has issued a call that removes or moves p
Untouched(r, p) == \A o \in Procs \ {r} : \A t \in TouchedBy(o) : ~Under(p, t)

\* the log of every other handler is still there
OthersInFlight(r) == nreq = 1 \/ \A o \in Procs \ {r} : req[o].op # "none"

RelativeToUploadDir(p) == SubSeq(p, Len(uploadDir) + 2, Len(p))

\* C20: a listing is always answered 200; every visible entry that no
\* concurrent delete or rename touched is in it, whatever failed for its
\* siblings; and a directory whose readdir fails is listed with no children
\* and size 0 while the walk of its parent goes on.
C20_EntryFailuresTolerated ==
  /\ [](\A r \in Procs :
         /\ (req[r].op = "list" /\ pc[r] = "done") => resp[r].status = 200
         /\ (Listed(r) /\ OthersInFlight(r)) =>
              \A p \in DOMAIN fs :
                (/\ Under(p, uploadDir) /\ p # uploadDir
                 /\ ~HiddenSegment(RelativeToUploadDir(p))
                 /\ Untouched(r, p))
                => \E item \in AllItems(resp[r].items) :
                     /\ item.path = RelativeToUploadDir(p)
                     /\ item.type = fs[p].type
                     /\ item.type = "file" => item.size = fs[p].data)
  /\ [][\A r \in Procs :
          (/\ pc[r] = "ls_readdir"
           /\ pc'[r] # "ls_readdir"
           /\ walk[r][Len(walk[r])].dirPath \notin DOMAIN fs)
          => IF Len(walk[r]) = 1
             THEN resp'[r].status = 200 /\ resp'[r].items = <<>>
             ELSE \E item \in AllItems(resp'[r].items)
                               \cup UNION {AllItems(walk'[r][i].items) : i \in 1..Len(walk'[r])} :
                    /\ item.path = walk[r][Len(walk[r])].relativePath
                    /\ item.type = "directory"
                    /\ item.children = <<>>
                    /\ item.size = 0]_vars

\* a listing taken while the directory s was removed: s is listed without
\* children and with size 0, and its sibling a is listed
C20_Witness ==
  \E r \in Procs :
    /\ Listed(r)
    /\ \E o \in Procs \ {r} :
         req[o].op = "delete" /\ req[o].param = <<"s">> /\ Calls(o, {"rm"}) # {}
    /\ \E item \in AllItems(resp[r].items) :
         item.path = <<"s">> /\ item.children = <<>> /\ item.size = 0
    /\ \E item \in AllItems(resp[r].items) : item.path = <<"a">>

\* C13: every download request eventually has a terminated response; a
\* stream error before the headers went out is answered 500, and after a
\* stream error behind the headers the response is ended.
C13_DownloadTerminates ==
  /\ \A r \in Procs : (req[r].op = "download") ~> (pc[r] = "done")
  /\ [][\A r \in Procs :
          (pc[r] = "dl_open" /\ pc'[r] = "done") => resp'[r].status = 500]_vars

\* the filename parameter of a Content-Disposition value: what stands between
\* the quote after filename= and the closing quote
FilenameParameter(v) == SubSeq(v, Len(ContentDisposition(<<>>)), Len(v) - 1)

\* a quoted-string body: plain characters and backslash-escaped pairs only
RECURSIVE WellQuoted(_)
WellQuoted(s) ==
  IF s = <<>> THEN TRUE
  ELSE IF s[1] = "\\" THEN Len(s) >= 2 /\ WellQuoted(SubSeq(s, 3, Len(s)))
  ELSE s[1] # "\"" /\ WellQuoted(Tail(s))

\* C14: the Content-Disposition value of a download holds no unescaped
\* double quote or backslash of the file name: its filename parameter is a
\* well-formed quoted-string body.
C14_DispositionEscaped ==
  \A r \in Procs :
    resp[r].disposition # <<>> => WellQuoted(FilenameParameter(resp[r].disposition))

\* where the extension of the last segment of p starts; behind p if it has none
ExtStart(p) ==
  LET sl    == {i \in 1..Len(p) : p[i] = "/"}
      start == IF sl = {} THEN 1 ELSE Max(sl) + 1
      dots  == {i \in (start + 1)..Len(p) : p[i] = "."}
  IN  IF dots = {} THEN Len(p) + 1 ELSE Max(dots)

\* candidate number k of a call: the desired path, then ' (k)' between base
\* name and extension of a file, behind the full name of a directory
Candidate(kind, desired, k) ==
  IF k = 0 THEN desired
  ELSE IF kind = "file"
  THEN SubSeq(desired, 1, ExtStart(desired) - 1) \o CounterSuffix(k)
       \o SubSeq(desired, ExtStart(desired), Len(desired))
  ELSE desired \o CounterSuffix(k)

Alone(c) == \A o \in Callers \ {c} : alloc[o].pc = "idle"

\* C15: a call tries the desired path and then the candidates ' (1)',
\* ' (2)', ... in this order, the counter starting at 1 and growing by 1
\* with each "already exists" failure; the returned path is the candidate
\* whose exclusive create succeeded, and with no other call it is the
\* lowest-numbered candidate that did not exist.
C15_CandidateOrder ==
  /\ [](\A c \in Callers :
         LET a == alloc[c]
         IN  a.pc # "idle" =>
               /\ a.counter >= 1
               /\ a.finalPath = Candidate(a.kind, a.desired, a.counter - 1)
               /\ a.pc = "returned" =>
                    /\ fs[a.finalPath].owner = c
                    /\ Alone(c) =>
                         \A j \in 0..(a.counter - 2) :
                           /\ Candidate(a.kind, a.desired, j) \in DOMAIN fs
                           /\ fs[Candidate(a.kind, a.desired, j)].owner = 0)
  /\ [][\A c \in Callers :
          /\ (alloc[c].pc = "idle" /\ alloc'[c].pc # "idle")
               => (alloc'[c].counter = 1 /\ alloc'[c].finalPath = alloc'[c].desired)
          /\ (alloc[c].pc = "trying" /\ alloc'[c].pc = "trying" /\ alloc'[c] # alloc[c])
               => /\ alloc'[c].counter = alloc[c].counter + 1
                  /\ CreateExclErrno(fs, alloc[c].finalPath) = "EEXIST"
                  /\ fs' = fs]_vars

\* a file call returned /d/up/f (2).t and a directory call /d/up/f.t (1)
C15_Witness ==
  \E c, d \in Callers :
    /\ alloc[c].pc = "returned" /\ alloc[c].kind = "file"
    /\ alloc[c].finalPath = <<"/","d","/","u","p","/","f"," ","(","2",")",".","t">>
    /\ alloc[d].pc = "returned" /\ alloc[d].kind = "directory"
    /\ alloc[d].finalPath = <<"/","d","/","u","p","/","f",".","t"," ","(","1",")">>

Owned(c) == {p \in DOMAIN fs : fs[p].owner = c}

\* C16: a create attempt failing with an error other than EEXIST ends the
\* call at once: the error is thrown, the call makes no other attempt and
\* has created nothing.
C16_OtherErrorIsFatal ==
  /\ [](\A c \in Callers :
         alloc[c].pc = "threw" => (alloc[c].error \notin {"", "EEXIST"} /\ Owned(c) = {}))
  /\ [][\A c \in Callers :
          /\ alloc[c].pc = "threw" => alloc'[c] = alloc[c]
          /\ (alloc[c].pc = "trying" /\ alloc'[c] # alloc[c]
               /\ CreateExclErrno(fs, alloc[c].finalPath) \notin {"", "EEXIST"})
               => (alloc'[c].pc = "threw" /\ fs' = fs)]_vars

\* a call threw ENOENT at its first attempt and another threw after a retry
C16_Witness ==
  \E c, d \in Callers :
    /\ alloc[c].pc = "threw" /\ alloc[c].error = "ENOENT" /\ alloc[c].counter = 1
    /\ alloc[d].pc = "threw" /\ alloc[d].error = "EACCES" /\ alloc[d].counter > 1

\* C17: every allocator call that is trying eventually returns a path or
\* throws, also when other callers keep creating the candidates ahead of it.
C17_CallReturns ==
  \A c \in Callers : (alloc[c].pc = "trying") ~> (alloc[c].pc \in {"returned", "threw"})

\* the statuses of a request turned down: blank name, containment failure,
\* source missing
Rejections == {400, 403, 404}

Mutates(r) == req[r].op \in {"delete", "rename"}

\* C21: a delete or rename request answered 400, 403 or 404 has changed
\* nothing on disk: a step of a handler that changes the filesystem answers
\* its request 200 in that step.  A request answered 400 or 403 has issued no
\* unlink, rm or rename; one answered 404 after issuing one had found its
\* source gone, and the call failed leaving the filesystem as it was.
C21_RejectedLeavesFilesystem ==
  /\ [][\A r \in Procs :
          (pc'[r] # pc[r] /\ fs' # fs)
          => (/\ req'[r].op \in {"delete", "rename"}
              /\ pc'[r] = "done"
              /\ resp'[r].status = 200)]_vars
  /\ [][\A r \in Procs :
          (/\ Mutates(r) /\ pc[r] # "done" /\ pc'[r] = "done"
           /\ resp'[r].status = 404
           /\ Calls(r, MutatingCalls) # {})
          => (~Exists(fs, currentPath(r)) /\ fs' = fs)]_vars
  /\ [](\A r \in Procs :
          (Mutates(r) /\ resp[r].status \in {400, 403})
          => Calls(r, MutatingCalls) = {})

\* a delete found its file at stat, issued unlink, and was answered 404
\* because another delete had removed the file in between
C21_Witness ==
  \E r \in Procs :
    /\ req[r].op = "delete" /\ resp[r].status = 404
    /\ Calls(r, {"unlink"}) # {}
    /\ \E o \in Procs \ {r} :
         req[o].op = "delete" /\ req[o].param = req[r].param /\ resp[o].status = 200

\* C21 as stated: a delete or rename request answered 400, 403 or 404 has
\* issued no unlink, rm or rename.
C21_RejectedIssuedNothing ==
  \A r \in Procs :
    (Mutates(r) /\ resp[r].status \in Rejections)
    => Calls(r, MutatingCalls) = {}

\* C22: whatever requests have been served, the upload root directory is
\* still there at its original path.
C22_UploadRootStays == Exists(fs, uploadDir) /\ fs[uploadDir].type = "directory"

\* C23: a rename never replaces or destroys an entry that is at the
\* destination when fs.rename executes: the entry is still there, as it was,
\* after the call.
C23_RenameNeverReplaces ==
  [][\A r \in Procs :
       (/\ pc[r] = "rn_rename" /\ pc'[r] = "done"
        /\ Exists(fs, newPath(r))
        /\ newPath(r) # currentPath(r))
       => (Exists(fs', newPath(r)) /\ fs'[newPath(r)] = fs[newPath(r)])]_vars

\* a name the sanitizer leaves alone, made of [A-Za-z0-9._-]
IsSanitizedName(name) ==
  /\ name # <<>>
  /\ \A i \in 1..Len(name) : name[i] \in AllowedChars
  /\ sanitizeFilenameSafe(name) = name

\* the characters of ` (${counter})` that are not in [A-Za-z0-9._-]
SuffixChars == {" ", "(", ")"}

\* C24 as stated: when the final segment of the desired path is a sanitized
\* name, the final segment of the returned path has only characters of
\* [A-Za-z0-9._-] and is unchanged by sanitizeFilenameSafe.
C24_ReturnedNameIsFixedPoint ==
  \A c \in Callers :
    (Returned(c) /\ IsSanitizedName(LastSegment(alloc[c].desired)))
    => IsSanitizedName(LastSegment(alloc[c].finalPath))

\* C24: when the final segment of the desired path is a sanitized name, a
\* call that returns at its first attempt returns that name, a fixed point of
\* the sanitizer; a call that a collision sent to a counter suffix returns
\* the characters of that name and of the counter with one space, one '('
\* and one ')' added, the extension of a file kept, and this name is changed
\* by sanitizeFilenameSafe.
C24_ReturnedNameSanitizedUpToSuffix ==
  \A c \in Callers :
    LET a    == alloc[c]
        want == LastSegment(a.desired)
        got  == LastSegment(a.finalPath)
    IN  (Returned(c) /\ IsSanitizedName(want)) =>
          IF a.counter = 1
          THEN got = want /\ IsSanitizedName(got)
          ELSE /\ \A i \in 1..Len(got) : got[i] \in AllowedChars \cup SuffixChars
               /\ KeepChars(got, SuffixChars) = <<" ", "(", ")">>
               /\ Len(got) = Len(want) + 3 + Len(Decimal(a.counter - 1))
               /\ a.kind = "file" => extname(got) = extname(want)
               /\ sanitizeFilenameSafe(got) # got

\* a file call returned its desired name and another, for the same name,
\* the name with the counter 2
C24_Witness ==
  \E c, d \in Callers :
    /\ Returned(c) /\ Returned(d)
    /\ alloc[c].kind = "file" /\ alloc[d].kind = "file"
    /\ alloc[c].desired = alloc[d].desired
    /\ IsSanitizedName(LastSegment(alloc[c].desired))
    /\ alloc[c].counter = 1 /\ alloc[d].counter = 3

\* C25: a rename answered 200 has moved its source, with what is under it,
\* to the direct child of the source's parent directory named by the
\* sanitized new name; newPath in the response is that destination relative
\* to the upload root; and every entry that is not the source or under it is
\* where and what it was.
C25_RenameMovesOneEntry ==
  [][\A r \in Procs :
       (pc[r] = "rn_rename" /\ pc'[r] = "done" /\ resp'[r].status = 200)
       => LET src == currentPath(r)
              dst == newPath(r)
          IN  /\ dirname(dst) = dirname(src)
              /\ LastSegment(dst) = sanitizeFilenameSafe(trim(req[r].newName))
              /\ join(uploadDir, resp'[r].newPath) = dst
              /\ ~isAbsolute(resp'[r].newPath)
              /\ ~Exists(fs', src)
              /\ \A p \in DOMAIN fs :
                   IF Under(p, src)
                   THEN LET q == dst \o SubSeq(p, Len(src) + 1, Len(p))
                        IN  Exists(fs', q) /\ fs'[q] = fs[p]
                   ELSE Exists(fs', p) /\ fs'[p] = fs[p]
              /\ \A q \in DOMAIN fs' : Under(q, dst) \/ Exists(fs, q)]_vars

====
